---- MODULE Spec2Model ----
(***************************************************************************)
(* cn-baostock-data (python/scripts/cn_baostock_data.py): the phased       *)
(* backfill daemon, its worker pools, its progress markers and its         *)
(* merge-on-write partition files.                                         *)
(*                                                                         *)
(* Dates are ISO strings "YYYY-MM-DD" in the code; they are fixed-width,   *)
(* so their string order is their chronological order, and the model holds *)
(* a date as its day number 1..MaxDay (0 stands for None / no file).       *)
(* Symbols are the numbers 1..NumSyms (their order is the order of the     *)
(* code strings).                                                          *)
(***************************************************************************)
EXTENDS Integers, Sequences, FiniteSets, TLC

\* ------------------------------------------------------------- bounds
NumSyms == 5
MaxDay == 4
MaxIncoming == 2
MaxUDate == 2
MaxUTime == 2
MaxUVal == 2
MaxName == 2

Syms == 1..NumSyms
Days == 1..MaxDay

\* ------------------------------------------------ partition files, rows
\* A bar row; for a fundamentals row symbol is "code" and date is "statDate".
\* time is 0 except in 30-minute rows.
Row(s, d, t, v) == [symbol |-> s, date |-> d, time |-> t, val |-> v]

\* A partition file on disk: absent, readable with its rows, or torn (a
\* partial write of pq.write_table, which pq.read_table cannot read).
NoFile == [st |-> "absent", rows |-> << >>]
TornFile == [st |-> "torn", rows |-> << >>]
OkFile(rows) == [st |-> "ok", rows |-> rows]

\* The dict key of by_key in each of the three writers.
KeyOf(kind, r) ==
  CASE kind = "daily" -> <<r.symbol, r.date>>
    [] kind = "30min" -> <<r.symbol, r.date, r.time>>
    [] OTHER -> <<r.symbol, r.date>>

\* The key= of sorted(...) in each of the three writers.
SortKeyOf(kind, r) ==
  CASE kind = "daily" -> <<r.date>>
    [] kind = "30min" -> <<r.date, r.time>>
    [] OTHER -> <<r.date>>

\* Python's tuple comparison a <= b, for tuples of the same length.
RECURSIVE LexLeq(_, _)
LexLeq(a, b) ==
  IF a = << >> THEN TRUE
  ELSE IF Head(a) < Head(b) THEN TRUE
  ELSE IF Head(a) > Head(b) THEN FALSE
  ELSE LexLeq(Tail(a), Tail(b))

LexLt(a, b) == LexLeq(a, b) /\ a # b

\* by_key[key] = r on a Python dict, held as the sequence of its values in
\* insertion order: an existing key keeps its place, a new key is appended.
RECURSIVE DictPut(_, _, _)
DictPut(d, r, kind) ==
  IF d = << >> THEN <<r>>
  ELSE IF KeyOf(kind, Head(d)) = KeyOf(kind, r) THEN <<r>> \o Tail(d)
  ELSE <<Head(d)>> \o DictPut(Tail(d), r, kind)

RECURSIVE DictPutAll(_, _, _)
DictPutAll(d, rows, kind) ==
  IF rows = << >> THEN d
  ELSE DictPutAll(DictPut(d, Head(rows), kind), Tail(rows), kind)

\* sorted(values, key=...): Python's sort is stable.
RECURSIVE InsertSorted(_, _, _)
InsertSorted(s, r, kind) ==
  IF s = << >> THEN <<r>>
  ELSE IF LexLeq(SortKeyOf(kind, Head(s)), SortKeyOf(kind, r))
       THEN <<Head(s)>> \o InsertSorted(Tail(s), r, kind)
  ELSE <<r>> \o s

RECURSIVE SortedBy(_, _)
SortedBy(s, kind) ==
  IF s = << >> THEN << >>
  ELSE InsertSorted(SortedBy(SubSeq(s, 1, Len(s) - 1), kind), s[Len(s)], kind)

\* existing_rows: the file's rows when it exists and pq.read_table succeeds;
\* [] when there is no file, and [] as well when the read raises
\* (except Exception: pass).
ExistingRows(file) == IF file.st = "ok" THEN file.rows ELSE << >>

\* A writer that appends the incoming rows to the existing ones without the
\* by_key merge.
write_30min_append(file, rows) ==
  OkFile(SortedBy(ExistingRows(file) \o rows, "30min"))

\* A writer that leaves by_key.values() in insertion order.
write_bars_unsorted(file, rows) ==
  OkFile(DictPutAll(DictPutAll(<< >>, ExistingRows(file), "daily"), rows, "daily"))

_write_bars_parquet(file, rows) ==
  LET by_key == DictPutAll(DictPutAll(<< >>, ExistingRows(file), "daily"), rows, "daily")
      merged == SortedBy(by_key, "daily")
  IN  OkFile(merged)

_write_30min_parquet(file, rows) ==
  LET by_key == DictPutAll(DictPutAll(<< >>, ExistingRows(file), "30min"), rows, "30min")
      merged == SortedBy(by_key, "30min")
  IN  OkFile(merged)

\* "if not merged: return" leaves the file as it is.
_write_fundamental_parquet(file, rows) ==
  LET by_key == DictPutAll(DictPutAll(<< >>, ExistingRows(file), "fund"), rows, "fund")
      merged == SortedBy(by_key, "fund")
  IN  IF merged = << >> THEN file ELSE OkFile(merged)

WriteParquet(kind, file, rows) ==
  CASE kind = "daily" -> _write_bars_parquet(file, rows)
    [] kind = "30min" -> _write_30min_parquet(file, rows)
    [] OTHER -> _write_fundamental_parquet(file, rows)

SeqToSet(s) == {s[i] : i \in 1..Len(s)}

RECURSIVE SortedSeq(_)
\* sorted(S) for a set of numbers.
SortedSeq(S) ==
  IF S = {} THEN << >>
  ELSE LET m == CHOOSE x \in S : \A y \in S : x <= y
       IN  <<m>> \o SortedSeq(S \ {m})

MaxOf(S) == CHOOSE x \in S : \A y \in S : y <= x
MinOf(S) == CHOOSE x \in S : \A y \in S : x <= y

\* ------------------------------------------------- program constants
NUM_WORKERS == 4
\* start_date ("2005-01-01" by default): the floor of the daily history.
StartDate == 1
\* BAR_30MIN_START = "2019-01-01": later than the daily floor.
BAR_30MIN_START == 3
\* FUNDAMENTAL_START_YEAR: the first target quarter.
FUNDAMENTAL_START_YEAR == 1
\* _INDEXES in dict order: 1 is csi300, 2 is csi500.
Indexes == {1, 2}
\* FUNDAMENTAL_TYPES: the model keeps two of the six statement types.
FundTypes == {1, 2}

\* r["date"][:4]: the year a date lies in (a model year has two days).
YearOf(d) == (d + 1) \div 2
Years == 1..YearOf(MaxDay)
\* (month - 1) // 3 + 1 with the year: the quarter a date lies in (a model
\* year has one quarter).
QuarterOf(d) == YearOf(d)

\* ------------------------------------------------- the external source
\* query_trade_dates: is_trading_day of the source's calendar (day 1 is a
\* trading day, days 2 and 3 are a weekend, day 4 is a trading day).
IsTradingDay(d) == d % 3 = 1

\* query_hs300_stocks / query_zz500_stocks, asked for date d at clock (now,
\* cutoff): empty on a non-trading day. The source brings out the list of a
\* day at the cutoff of that day; asked earlier on the day itself it answers
\* with the list in force until then. csi300 holds symbol 1 until symbol 2
\* replaces it on day 4; csi500 has no list before day 4 and holds symbol 2
\* from then on.
SrcMembers(i, d, now, cutoff) ==
  LET eff == IF d = now /\ ~cutoff THEN d - 1 ELSE d
  IN  IF ~IsTradingDay(d) THEN {}
      ELSE IF i = 1 THEN (IF eff < 4 THEN {1} ELSE {2})
      ELSE (IF eff < 4 THEN {} ELSE {2})

\* query_history_k_data_plus: the dates in [lo, hi] the source holds a bar
\* for when asked at clock (now, cutoff): every past trading day, and the
\* current day once the market data of the day is out.
SrcBarDays(lo, hi, now, cutoff) ==
  {d \in lo..hi : IsTradingDay(d) /\ (d < now \/ (d = now /\ cutoff))}

\* query_profit_data etc.: the quarters the source holds a statement for.
SrcFundQuarters(t, s) == IF s = 1 /\ t = 1 THEN {1} ELSE {}

\* The row the source returns for a bar of symbol s on day d, and for the
\* statement of quarter q (its statDate is the first day of the quarter).
BarRow(s, d) == Row(s, d, 0, 1)
FundRow(s, q) == Row(s, 2 * q - 1, 0, 1)

Bar30Row(s, d) == Row(s, d, 1, 1)

\* The rows of a query answer for the ascending dates ds.
RECURSIVE RowsOfDays(_, _, _)
RowsOfDays(kind, s, ds) ==
  IF ds = << >> THEN << >>
  ELSE <<IF kind = "daily" THEN BarRow(s, Head(ds))
         ELSE IF kind = "30min" THEN Bar30Row(s, Head(ds))
         ELSE FundRow(s, Head(ds))>> \o RowsOfDays(kind, s, Tail(ds))

\* ------------------------------------------------- more bounds
\* Faults of the environment (a source query that fails with error_code !=
\* "0", an answer or a write that makes a task raise), and restarts of the
\* process.
MaxFaults == 1
MaxRestarts == 1

\* --------------------------------------------------------------- state
VARIABLES
  today,          \* date.today()
  afterCutoff,    \* the local time is at or after 16:30
  shutdown,       \* _shutdown
  pc,             \* where CNBaoStockDaemon.run is
  doneToday,      \* self._daily_update_done_today (0: None)
  scanProgress,   \* cn/index/.scan-progress (0: no file)
  lastCompleted,  \* cn/daily/.last-completed (0: no file)
  triedEmpty,     \* cn/fundamentals/.tried-empty
  indexFiles,     \* cn/index/<index>/<date>.txt: its symbols ({}: no file)
  daily,          \* cn/daily/<symbol>/<year>.parquet
  min30,          \* cn/30min/<symbol>/<year>.parquet
  fund,           \* cn/fundamentals/<type>/<symbol>.parquet
  phase,          \* the phase whose pool is running or has just ended
  work,           \* the work list handed to the pool
  rt,             \* each item's progress in the pool
  chunk,          \* chunksize of imap_unordered
  session,        \* bs.login() of _worker_init gave the pool's workers a session
  loc,            \* the locals of the running phase method
  faults,         \* failed source queries so far
  restarts,       \* restarts so far
  tickRan,        \* history: the phase methods called in this iteration of run
  tickIdxInc,     \* history: when this iteration began, .scan-progress was
                  \* absent or earlier than yesterday
  flagSeen,       \* history: the running pass saw _shutdown set
  ukind, ufile, uprev, uin, uever, uonce, ucalls,  \* see the upsert harness
  rdir, rfiles, rres,                              \* see the reader harness
  spc, sunits, safter, sentry                      \* see the idle-wait harness

envVars == <<today, afterCutoff, shutdown, faults, restarts>>
diskVars == <<scanProgress, lastCompleted, triedEmpty, indexFiles, daily, min30, fund>>
procVars == <<pc, doneToday, phase, work, rt, chunk, session, loc>>
histVars == <<tickRan, tickIdxInc, flagSeen>>
upsertVars == <<ukind, ufile, uprev, uin, uever, uonce, ucalls>>
readerVars == <<rdir, rfiles, rres>>
sleepVars == <<spc, sunits, safter, sentry>>
harnessVars == <<upsertVars, readerVars, sleepVars>>
vars == <<envVars, diskVars, procVars, histVars, harnessVars>>

LocInit ==
  [today_str |-> 0, last_td |-> 0, completed |-> TRUE, total |-> 0,
   known |-> {}, new |-> {}, tried |-> {}, i |-> 0]

Item(sym, idx, lo, hi) == [sym |-> sym, idx |-> idx, lo |-> lo, hi |-> hi]
\* asked: the quarters a fundamentals task queried for the statement type
\* it handled last.
Queued == [st |-> "queued", rows |-> {}, cnt |-> 0, ft |-> 0, asked |-> {}]

EmptyStore == [s \in Syms |-> [y \in Years |-> NoFile]]

DaemonInit ==
  /\ today = 1 /\ afterCutoff = FALSE /\ shutdown = FALSE
  /\ faults = 0 /\ restarts = 0
  /\ pc = "loop" /\ doneToday = 0
  /\ scanProgress = 0 /\ lastCompleted = 0 /\ triedEmpty = {}
  /\ indexFiles = [i \in Indexes |-> [d \in Days |-> {}]]
  /\ daily = EmptyStore /\ min30 = EmptyStore
  /\ fund = [t \in FundTypes |-> [s \in Syms |-> NoFile]]
  /\ phase = "none" /\ work = << >> /\ rt = << >> /\ chunk = 1
  /\ session = TRUE
  /\ loc = LocInit
  /\ tickRan = << >> /\ tickIdxInc = FALSE /\ flagSeen = FALSE

UpsertIdle ==
  /\ ukind = "daily" /\ ufile = NoFile /\ uprev = NoFile /\ uin = << >>
  /\ uever = {} /\ uonce = NoFile /\ ucalls = 0

\* No directory for the readers of data.py, and no call of theirs yet.
ReaderIdle ==
  /\ rdir = [exists |-> FALSE, entries |-> [n \in 0..MaxName |-> "none"]]
  /\ rfiles = [y \in Years |-> NoFile]
  /\ rres = [fn |-> "none", symbol |-> 0, year |-> 0, raised |-> FALSE, out |-> << >>]

\* No call of _sleep is followed.
SleepIdle == spc = "idle" /\ sunits = 0 /\ safter = 0 /\ sentry = FALSE

Init == DaemonInit /\ UpsertIdle /\ ReaderIdle /\ SleepIdle

\* ----------------------------------------------------- the environment
\* Time passes: the cutoff is crossed, or the next day begins. A worker in
\* the middle of an item reads no clock before the item ends, so the model
\* lets time pass between the steps of the items, not inside one.
ClockTick ==
  /\ \A k \in 1..Len(rt) : rt[k].st \notin {"run", "writing"}
  /\ IF ~afterCutoff THEN afterCutoff' = TRUE /\ today' = today
     ELSE today < MaxDay /\ today' = today + 1 /\ afterCutoff' = FALSE
  /\ UNCHANGED <<shutdown, faults, restarts, diskVars, procVars, histVars, harnessVars>>

\* SIGINT or SIGTERM reaches the parent process.
_handle_signal ==
  /\ pc \notin {"stopped", "crashed", "hung"}
  /\ ~shutdown
  /\ shutdown' = TRUE
  /\ UNCHANGED <<today, afterCutoff, faults, restarts, diskVars, procVars, histVars, harnessVars>>

\* The process is started again (after a hang: killed first, once its
\* workers are idle): the disk is what the last run left.
Restart ==
  /\ pc \in {"stopped", "crashed", "hung"}
  /\ \A k \in 1..Len(rt) : rt[k].st \notin {"run", "writing"}
  /\ restarts < MaxRestarts
  /\ restarts' = restarts + 1
  /\ shutdown' = FALSE
  /\ pc' = "loop" /\ doneToday' = 0 /\ phase' = "none"
  /\ work' = << >> /\ rt' = << >> /\ chunk' = 1 /\ loc' = LocInit
  /\ session' = TRUE
  /\ tickRan' = << >> /\ tickIdxInc' = FALSE
  /\ flagSeen' = FALSE
  /\ UNCHANGED <<today, afterCutoff, faults, diskVars, harnessVars>>

\* ----------------------------------------------------- reads of the disk
\* _read_index_file over every file of every index, as a set.
Universe(files) == UNION {files[i][d] : i \in Indexes, d \in Days}

\* A reader that returns the symbols index by index, a symbol once per index
\* it was ever a member of.
all_index_symbols_per_index(files) ==
  SortedSeq(UNION {files[1][d] : d \in Days}) \o SortedSeq(UNION {files[2][d] : d \in Days})

\* sorted(symbols) of the symbols set of _all_index_symbols.
_all_index_symbols(files) == SortedSeq(Universe(files))

FileDates(file) == {file.rows[k].date : k \in 1..Len(file.rows)}

\* A lookup that scans the year files in ascending file-name order.
LatestDateOldestFirst(store, s) ==
  LET ys == {y \in Years : store[s][y].st = "ok" /\ store[s][y].rows # << >>}
  IN  IF ys = {} THEN 0 ELSE MaxOf(FileDates(store[s][MinOf(ys)]))

\* The first readable, non-empty year file in descending file-name order,
\* and the maximum of its dates; 0 for None.
LatestDate(store, s) ==
  LET ys == {y \in Years : store[s][y].st = "ok" /\ store[s][y].rows # << >>}
  IN  IF ys = {} THEN 0 ELSE MaxOf(FileDates(store[s][MaxOf(ys)]))

_read_latest_bar_date(s) == LatestDate(daily, s)
_read_latest_30min_date(s) == LatestDate(min30, s)

\* A reader that finds no quarter in any file.
existing_quarters_unread(file) == {}

\* _get_existing_quarters: the quarters of the statDates of a readable file.
_get_existing_quarters(file) ==
  IF file.st = "ok" THEN {QuarterOf(d) : d \in FileDates(file)} ELSE {}

\* ----------------------------------------------------- the scheduler's tests
\* A test that is content with any marker, however old.
index_history_begun == scanProgress # 0

_index_history_complete ==
  scanProgress # 0 /\ scanProgress >= today - 1

\* A test that knows the cache of this process only, not .last-completed.
should_run_by_cache_only ==
  IF doneToday = today THEN FALSE ELSE afterCutoff

\* _should_run_daily_update: its result, and the cache after the call.
_should_run_daily_update ==
  IF doneToday = today THEN FALSE
  ELSE IF lastCompleted # 0 /\ lastCompleted >= today THEN FALSE
  ELSE afterCutoff

DoneTodayAfterCheck ==
  IF doneToday # today /\ lastCompleted # 0 /\ lastCompleted >= today
  THEN today ELSE doneToday

\* ----------------------------------------------------- the worker pool
ChunkOf(k) == (k - 1) \div chunk
Busy == {k \in 1..Len(rt) : rt[k].st \in {"run", "writing"}}
Finished(k) == rt[k].st \in {"done", "consumed"}

\* multiprocessing.Pool(...).imap_unordered(task, work, chunksize): the pool
\* begins with every item queued.
StartPool(ph, items, cs, l) ==
  /\ phase' = ph /\ work' = items /\ chunk' = cs /\ loc' = l
  /\ rt' = [k \in 1..Len(items) |-> Queued]
  /\ pc' = "pool" /\ flagSeen' = FALSE
  /\ session' = TRUE

\* The environment may still make a call to the source fail.
QueryFails == faults < MaxFaults

\* _worker_init in the workers of the pool that has just started: bs.login()
\* returns an error (the source is down), and _worker_init does not look at
\* what it returns. The workers take their items without a session, and every
\* query of theirs reports error_code != "0".
_worker_init_login_fails ==
  /\ pc = "pool" /\ session
  /\ \A k \in 1..Len(rt) : rt[k].st = "queued"
  /\ QueryFails
  /\ faults' = faults + 1
  /\ session' = FALSE
  /\ UNCHANGED <<today, afterCutoff, shutdown, restarts, diskVars, pc, doneToday,
                 phase, work, rt, chunk, loc, histVars, harnessVars>>

\* A pool that hands an item to a worker whether or not one is free.
CanBeginAnyTime(k) ==
  /\ pc = "pool"
  /\ k \in 1..Len(rt)
  /\ rt[k].st = "queued"
  /\ \A j \in 1..(k - 1) :
        IF ChunkOf(j) = ChunkOf(k) THEN Finished(j) ELSE rt[j].st # "queued"

\* A worker may take item k: a worker is free, chunks leave the task queue
\* in order, and the items of one chunk run one after the other on one worker.
CanBegin(k) ==
  /\ pc = "pool"
  /\ k \in 1..Len(rt)
  /\ rt[k].st = "queued"
  /\ Cardinality(Busy) < NUM_WORKERS
  /\ \A j \in 1..(k - 1) :
        IF ChunkOf(j) = ChunkOf(k) THEN Finished(j) ELSE rt[j].st # "queued"

\* _query_index_constituents: [] on an error, the members otherwise.
\* _write_index_file: the sorted set of "code,name" lines.
_write_index_file(files, i, d, constituents) ==
  [files EXCEPT ![i][d] = constituents]

\* _task_fetch_index: nothing when the file exists, one query otherwise, and
\* the file is written when the answer is not empty.
_task_fetch_index(k) ==
  /\ phase = "index"
  /\ CanBegin(k)
  /\ LET i == work[k].idx
         d == work[k].lo
     IN  IF indexFiles[i][d] # {}
         THEN /\ rt' = [rt EXCEPT ![k].st = "done"]
              /\ UNCHANGED <<indexFiles, faults>>
         ELSE \E ok \in BOOLEAN :
                /\ ok => session
                /\ ok \/ ~session \/ QueryFails
                /\ faults' = IF ok \/ ~session THEN faults ELSE faults + 1
                /\ LET constituents == IF ok THEN SrcMembers(i, d, today, afterCutoff)
                                      ELSE {}
                   IN  /\ indexFiles' = IF constituents # {}
                                        THEN _write_index_file(indexFiles, i, d, constituents)
                                        ELSE indexFiles
                       /\ rt' = [rt EXCEPT ![k].st = "done",
                                           ![k].cnt = Cardinality(constituents)]
  /\ UNCHANGED <<today, afterCutoff, shutdown, restarts, scanProgress, lastCompleted,
                 triedEmpty, daily, min30, fund, pc, doneToday, phase, work, chunk, session,
                 loc, histVars, harnessVars>>

\* pool.terminate() sends SIGTERM to every worker. A worker started by spawn
\* or forkserver has the default disposition: it is killed, and one in the
\* middle of pq.write_table leaves the partial file behind.
Torn(store) ==
  [a \in DOMAIN store |-> [b \in DOMAIN store[a] |->
      IF store[a][b].st = "writing" THEN TornFile ELSE store[a][b]]]

\* The result of item k is ready for the parent: results arrive per chunk.
Ready(k) ==
  /\ k \in 1..Len(rt)
  /\ rt[k].st = "done"
  /\ \A j \in 1..Len(rt) : ChunkOf(j) = ChunkOf(k) => Finished(j)
  /\ \A j \in 1..(k - 1) : ChunkOf(j) = ChunkOf(k) => rt[j].st = "consumed"

\* One pass through the body of "for result in pool.imap_unordered(...)":
\* with _shutdown set the pool is terminated and the loop left, otherwise
\* the result is counted; after the last result the with block ends.
\* A worker started by fork inherited _handle_signal for SIGTERM (_worker_init
\* resets SIGINT only): it survives pool.terminate() and finishes its item,
\* and terminate() never returns when a worker was busy.
Consume(k) ==
  /\ pc = "pool"
  /\ Ready(k)
  /\ IF shutdown
     THEN /\ flagSeen' = TRUE
          /\ \/ /\ daily' = Torn(daily) /\ min30' = Torn(min30) /\ fund' = Torn(fund)
                /\ loc' = [loc EXCEPT !.completed = FALSE]
                /\ work' = << >> /\ rt' = << >>
                /\ pc' = "post"
             \/ /\ Busy # {}
                /\ pc' = "hung"
                /\ UNCHANGED <<daily, min30, fund, loc, work, rt>>
          /\ UNCHANGED tickRan
     ELSE LET left == {j \in 1..Len(rt) : j # k /\ rt[j].st # "consumed"}
          IN  /\ loc' = [loc EXCEPT
                    !.total = @ + rt[k].cnt,
                    !.tried = IF phase = "fund" /\ rt[k].cnt = 0
                              THEN @ \cup {work[k].sym} ELSE @]
              /\ tickRan' = [tickRan EXCEPT ![Len(tickRan)].rows = @ + rt[k].cnt]
              /\ IF left = {}
                 THEN work' = << >> /\ rt' = << >> /\ pc' = "post"
                 ELSE /\ rt' = [rt EXCEPT ![k].st = "consumed"]
                      /\ UNCHANGED <<work, pc>>
              /\ UNCHANGED <<daily, min30, fund, flagSeen>>
  /\ UNCHANGED <<envVars, scanProgress, lastCompleted, triedEmpty, indexFiles,
                 doneToday, phase, chunk, session, tickIdxInc, harnessVars>>

\* next() of imap_unordered raises what task k raised: no phase method and
\* not run catches it, so the with block ends (Pool.__exit__ is terminate()),
\* run's finally logs out and the process ends with the exception.
Reraise(k) ==
  /\ pc = "pool"
  /\ k \in 1..Len(rt)
  /\ rt[k].st = "raised"
  /\ \/ /\ daily' = Torn(daily) /\ min30' = Torn(min30) /\ fund' = Torn(fund)
        /\ work' = << >> /\ rt' = << >>
        /\ pc' = "crashed"
     \/ /\ Busy # {}
        /\ pc' = "hung"
        /\ UNCHANGED <<daily, min30, fund, work, rt>>
  /\ UNCHANGED <<envVars, scanProgress, lastCompleted, triedEmpty, indexFiles,
                 doneToday, phase, chunk, session, loc, histVars, harnessVars>>

\* ----------------------------------------------------- phase 1: index history
\* _query_trading_days: the trading days of [lo, hi], ascending.
_query_trading_days(lo, hi) == SortedSeq({d \in lo..hi : IsTradingDay(d)})

\* A scan that resumes at the marker's date instead of the day after it.
ScanStartAtMarker == IF scanProgress # 0 THEN scanProgress ELSE StartDate

\* scan_start of _build_index_history.
ScanStart == IF scanProgress # 0 THEN scanProgress + 1 ELSE StartDate

\* The work list of _build_index_history: per trading day, per index, one
\* item when the day's file does not exist.
RECURSIVE IndexWork(_, _)
IndexWork(tds, files) ==
  IF tds = << >> THEN << >>
  ELSE LET d == Head(tds)
       IN  (IF files[1][d] = {} THEN <<Item(0, 1, d, d)>> ELSE << >>)
           \o (IF files[2][d] = {} THEN <<Item(0, 2, d, d)>> ELSE << >>)
           \o IndexWork(Tail(tds), files)

\* What every iteration of the loop of run records when it begins.
TickBegins(ph, n) ==
  /\ tickRan' = <<[ph |-> ph, n |-> n, rows |-> 0]>>
  /\ tickIdxInc' = (scanProgress = 0 \/ scanProgress < today - 1)

\* The pc run goes to after _build_index_history returned ("continue").
AfterIndexHistory == "loop"

\* run, step 1, and _build_index_history up to the start of its pool.
_build_index_history ==
  /\ pc = "loop" /\ ~shutdown
  /\ ~_index_history_complete
  /\ LET scan_start == ScanStart
         end_str == today
         trading_days == _query_trading_days(scan_start, end_str)
         items == IndexWork(trading_days, indexFiles)
     IN  /\ TickBegins("index", Len(items))
         /\ IF scan_start > end_str
            THEN /\ pc' = AfterIndexHistory
                 /\ UNCHANGED <<scanProgress, phase, work, rt, chunk, session, loc, flagSeen>>
            ELSE IF items = << >>
            THEN /\ scanProgress' = IF trading_days # << >>
                                    THEN trading_days[Len(trading_days)]
                                    ELSE scanProgress
                 /\ pc' = AfterIndexHistory
                 /\ UNCHANGED <<phase, work, rt, chunk, session, loc, flagSeen>>
            ELSE /\ StartPool("index", items, 4,
                       [LocInit EXCEPT !.today_str = end_str,
                                       !.last_td = trading_days[Len(trading_days)]])
                 /\ UNCHANGED scanProgress
  /\ UNCHANGED <<envVars, lastCompleted, triedEmpty, indexFiles, daily, min30, fund,
                 doneToday, harnessVars>>

\* _query_trading_days raises (error_code != "0"): nothing catches it, run's
\* finally logs out and the process ends with the exception.
_build_index_history_calendar_error ==
  /\ pc = "loop" /\ ~shutdown
  /\ ~_index_history_complete
  /\ ScanStart <= today
  /\ QueryFails
  /\ faults' = faults + 1
  /\ TickBegins("index", 0)
  /\ pc' = "crashed"
  /\ UNCHANGED <<today, afterCutoff, shutdown, restarts, diskVars, doneToday, phase,
                 work, rt, chunk, session, loc, flagSeen, harnessVars>>

\* A pass that writes the marker whether or not it was cancelled.
ScanPassMarksAlways(l) == l.last_td # 0

\* "if completed and trading_days"
ScanPassMarks(l) == l.completed /\ l.last_td # 0

\* The end of _build_index_history.
PostIndex ==
  /\ pc = "post" /\ phase = "index"
  /\ scanProgress' = IF ScanPassMarks(loc) THEN loc.last_td ELSE scanProgress
  /\ pc' = AfterIndexHistory
  /\ loc' = LocInit
  /\ UNCHANGED <<envVars, lastCompleted, triedEmpty, indexFiles, daily, min30, fund,
                 doneToday, phase, work, rt, chunk, session, histVars, harnessVars>>

\* "while not _shutdown" ends the loop; finally: _bs_logout().
LoopExit ==
  /\ pc \in {"loop"} /\ shutdown
  /\ pc' = "stopped"
  /\ UNCHANGED <<envVars, diskVars, doneToday, phase, work, rt, chunk, session, loc,
                 histVars, harnessVars>>

\* ----------------------------------------------------- bar tasks
\* by_year of _task_fetch_bars / _task_fetch_30min: the rows of the first
\* year not yet written (the answer is ascending by date).
FirstYear(ds) == YearOf(MinOf(ds))

\* A task that puts all its rows into one group, the first year's.
DaysOfAnyYear(ds) == ds

DaysOfFirstYear(ds) == {d \in ds : YearOf(d) = FirstYear(ds)}

\* pq.write_table(table, path) has begun: the path holds a partial file
\* until the write ends with the merged rows.
BeginWrite(store, kind, s, ds) ==
  LET y == FirstYear(ds)
      year_rows == RowsOfDays(kind, s, SortedSeq(DaysOfFirstYear(ds)))
  IN  [store EXCEPT ![s][y] =
         [st |-> "writing", rows |-> WriteParquet(kind, store[s][y], year_rows).rows]]

EndWrite(store, s, ds) == [store EXCEPT ![s][FirstYear(ds)].st = "ok"]

BarPhases == {"bars", "du_new", "du_cur"}

\* What the source does to a task: it answers ("ok"), it reports an error
\* ("error"), or a row of its answer holds a value that int(val) or
\* float(val) does not parse, and the task raises ValueError ("raise").
TaskOutcomes == {"ok", "error", "raise"}

\* _task_fetch_bars up to its first write: _query_daily_bars returns [] on an
\* error; with no rows the task returns (symbol, 0).
_task_fetch_bars(k) ==
  /\ phase \in BarPhases
  /\ CanBegin(k)
  /\ \E res \in TaskOutcomes :
       /\ ~session => res = "error"
       /\ res = "ok" \/ ~session \/ QueryFails
       /\ faults' = IF res = "ok" \/ ~session THEN faults ELSE faults + 1
       /\ LET rows == IF res = "ok"
                      THEN SrcBarDays(work[k].lo, work[k].hi, today, afterCutoff)
                      ELSE {}
          IN  IF res = "raise"
              THEN /\ rt' = [rt EXCEPT ![k].st = "raised"]
                   /\ UNCHANGED daily
              ELSE IF rows = {}
              THEN /\ rt' = [rt EXCEPT ![k].st = "done"]
                   /\ UNCHANGED daily
              ELSE /\ rt' = [rt EXCEPT ![k].st = "writing", ![k].rows = rows,
                                       ![k].cnt = Cardinality(rows)]
                   /\ daily' = BeginWrite(daily, "daily", work[k].sym, rows)
  /\ UNCHANGED <<today, afterCutoff, shutdown, restarts, scanProgress, lastCompleted,
                 triedEmpty, indexFiles, min30, fund, pc, doneToday, phase, work,
                 chunk, session, loc, histVars, harnessVars>>

\* _write_bars_parquet returns; the next year of by_year is written, or the
\* task returns (symbol, len(rows)).
_task_fetch_bars_write(k) ==
  /\ pc \in {"pool", "hung"} /\ phase \in BarPhases
  /\ k \in 1..Len(rt)
  /\ rt[k].st = "writing"
  /\ LET s == work[k].sym
         left == rt[k].rows \ DaysOfFirstYear(rt[k].rows)
         written == EndWrite(daily, s, rt[k].rows)
     IN  IF left = {}
         THEN /\ daily' = written
              /\ rt' = [rt EXCEPT ![k].st = "done", ![k].rows = {}]
         ELSE /\ daily' = BeginWrite(written, "daily", s, left)
              /\ rt' = [rt EXCEPT ![k].rows = left]
  /\ UNCHANGED <<envVars, scanProgress, lastCompleted, triedEmpty, indexFiles, min30,
                 fund, pc, doneToday, phase, work, chunk, session, loc, histVars,
                 harnessVars>>

_task_fetch_30min(k) ==
  /\ phase = "30min"
  /\ CanBegin(k)
  /\ \E res \in TaskOutcomes :
       /\ ~session => res = "error"
       /\ res = "ok" \/ ~session \/ QueryFails
       /\ faults' = IF res = "ok" \/ ~session THEN faults ELSE faults + 1
       /\ LET rows == IF res = "ok"
                      THEN SrcBarDays(work[k].lo, work[k].hi, today, afterCutoff)
                      ELSE {}
          IN  IF res = "raise"
              THEN /\ rt' = [rt EXCEPT ![k].st = "raised"]
                   /\ UNCHANGED min30
              ELSE IF rows = {}
              THEN /\ rt' = [rt EXCEPT ![k].st = "done"]
                   /\ UNCHANGED min30
              ELSE /\ rt' = [rt EXCEPT ![k].st = "writing", ![k].rows = rows,
                                       ![k].cnt = Cardinality(rows)]
                   /\ min30' = BeginWrite(min30, "30min", work[k].sym, rows)
  /\ UNCHANGED <<today, afterCutoff, shutdown, restarts, scanProgress, lastCompleted,
                 triedEmpty, indexFiles, daily, fund, pc, doneToday, phase, work,
                 chunk, session, loc, histVars, harnessVars>>

_task_fetch_30min_write(k) ==
  /\ pc \in {"pool", "hung"} /\ phase = "30min"
  /\ k \in 1..Len(rt)
  /\ rt[k].st = "writing"
  /\ LET s == work[k].sym
         left == rt[k].rows \ DaysOfFirstYear(rt[k].rows)
         written == EndWrite(min30, s, rt[k].rows)
     IN  IF left = {}
         THEN /\ min30' = written
              /\ rt' = [rt EXCEPT ![k].st = "done", ![k].rows = {}]
         ELSE /\ min30' = BeginWrite(written, "30min", s, left)
              /\ rt' = [rt EXCEPT ![k].rows = left]
  /\ UNCHANGED <<envVars, scanProgress, lastCompleted, triedEmpty, indexFiles, daily,
                 fund, pc, doneToday, phase, work, chunk, session, loc, histVars,
                 harnessVars>>

\* ----------------------------------------------------- fundamentals tasks
NumFundTypes == Cardinality(FundTypes)

\* target_quarters: from the floor to the current quarter.
TargetQuarters(now) == FUNDAMENTAL_START_YEAR..QuarterOf(now)

\* _task_fetch_fundamentals, one statement type per step: the missing
\* quarters are queried (a failed query is skipped), and the rows, if any,
\* are written; pq.write_table may raise (wfails), and nothing in the task
\* catches that.
_task_fetch_fundamentals(k) ==
  /\ phase = "fund"
  /\ CanBegin(k) \/ (pc \in {"pool", "hung"} /\ k \in 1..Len(rt) /\ rt[k].st = "run")
  /\ LET s == work[k].sym
         t == rt[k].ft + 1
         existing == _get_existing_quarters(fund[t][s])
         missing == TargetQuarters(today) \ existing
         cost(failed, wfails) ==
           IF session THEN Cardinality(failed) + (IF wfails THEN 1 ELSE 0) ELSE 0
     IN  \E failed \in SUBSET missing, wfails \in BOOLEAN :
           /\ ~session => failed = missing /\ ~wfails
           /\ faults + cost(failed, wfails) <= MaxFaults
           /\ faults' = faults + cost(failed, wfails)
           /\ LET got == (missing \ failed) \cap SrcFundQuarters(t, s)
                  all_rows == RowsOfDays("fund", s, SortedSeq(got))
              IN  /\ wfails => got # {}
                  /\ IF got = {}
                     THEN /\ rt' = [rt EXCEPT ![k].ft = t, ![k].asked = missing,
                                      ![k].st = IF t = NumFundTypes THEN "done" ELSE "run"]
                          /\ UNCHANGED fund
                     ELSE IF wfails
                     THEN /\ rt' = [rt EXCEPT ![k].st = "raised", ![k].asked = missing]
                          /\ UNCHANGED fund
                     ELSE /\ rt' = [rt EXCEPT ![k].st = "writing", ![k].asked = missing,
                                              ![k].cnt = @ + Cardinality(got)]
                          /\ fund' = [fund EXCEPT ![t][s] =
                               [st |-> "writing",
                                rows |-> _write_fundamental_parquet(fund[t][s], all_rows).rows]]
  /\ UNCHANGED <<today, afterCutoff, shutdown, restarts, scanProgress, lastCompleted,
                 triedEmpty, indexFiles, daily, min30, pc, doneToday, phase, work,
                 chunk, session, loc, histVars, harnessVars>>

_task_fetch_fundamentals_write(k) ==
  /\ pc \in {"pool", "hung"} /\ phase = "fund"
  /\ k \in 1..Len(rt)
  /\ rt[k].st = "writing"
  /\ LET s == work[k].sym
         t == rt[k].ft + 1
     IN  /\ fund' = [fund EXCEPT ![t][s].st = "ok"]
         /\ rt' = [rt EXCEPT ![k].ft = t,
                             ![k].st = IF t = NumFundTypes THEN "done" ELSE "run"]
  /\ UNCHANGED <<envVars, scanProgress, lastCompleted, triedEmpty, indexFiles, daily,
                 min30, pc, doneToday, phase, work, chunk, session, loc, histVars,
                 harnessVars>>

\* ----------------------------------------------------- phase 2: daily update
RECURSIVE BarItems(_, _, _)
\* [(sym, lo, today_str, dir) for sym in syms]
BarItems(syms, lo, hi) ==
  IF syms = << >> THEN << >>
  ELSE <<Item(Head(syms), 0, lo, hi)>> \o BarItems(Tail(syms), lo, hi)

\* run, step 2, and the first lines of _run_daily_update.
_run_daily_update ==
  /\ pc = "loop" /\ ~shutdown
  /\ _index_history_complete
  /\ _should_run_daily_update
  /\ TickBegins("daily", 0)
  /\ loc' = [LocInit EXCEPT !.today_str = today,
                            !.known = Universe(indexFiles), !.i = 1]
  /\ pc' = "du_refresh"
  /\ UNCHANGED <<envVars, diskVars, doneToday, phase, work, rt, chunk, session,
                 flagSeen, harnessVars>>

\* One pass of "for index_name in _INDEXES": return on _shutdown, otherwise
\* query today's constituents and, when there are any, write today's file
\* and collect the symbols not known before.
_run_daily_update_refresh ==
  /\ pc = "du_refresh"
  /\ IF shutdown
     THEN /\ pc' = "loop" /\ loc' = LocInit
          /\ UNCHANGED <<indexFiles, faults>>
     ELSE \E ok \in BOOLEAN :
            /\ ok \/ QueryFails
            /\ faults' = IF ok THEN faults ELSE faults + 1
            /\ LET constituents == IF ok THEN SrcMembers(loc.i, loc.today_str, today,
                                                       afterCutoff)
                                   ELSE {}
               IN  /\ indexFiles' = IF constituents # {}
                        THEN _write_index_file(indexFiles, loc.i, loc.today_str, constituents)
                        ELSE indexFiles
                   /\ loc' = [loc EXCEPT !.new = @ \cup (constituents \ loc.known),
                                         !.i = @ + 1]
                   /\ pc' = IF loc.i = Cardinality(Indexes) THEN "du_new" ELSE "du_refresh"
  /\ UNCHANGED <<today, afterCutoff, shutdown, restarts, scanProgress, lastCompleted,
                 triedEmpty, daily, min30, fund, doneToday, phase, work, rt, chunk, session, histVars, harnessVars>>

\* "if new_symbols and not _shutdown": the pool that backfills them fully.
_run_daily_update_new ==
  /\ pc = "du_new"
  /\ IF loc.new # {} /\ ~shutdown
     THEN StartPool("du_new", BarItems(SortedSeq(loc.new), StartDate, loc.today_str),
                    1, loc)
     ELSE /\ pc' = "du_cur"
          /\ UNCHANGED <<phase, work, rt, chunk, session, loc, flagSeen>>
  /\ UNCHANGED <<envVars, diskVars, doneToday, tickRan, tickIdxInc,
                 harnessVars>>

AtDuCurrent == pc = "du_cur" \/ (pc = "post" /\ phase = "du_new")

\* "if current_symbols and not _shutdown": the pool that updates today's bar
\* of the symbols of today's files.
_run_daily_update_current ==
  /\ AtDuCurrent
  /\ LET current_symbols == UNION {indexFiles[i][loc.today_str] : i \in Indexes}
     IN  IF current_symbols # {} /\ ~shutdown
         THEN StartPool("du_cur",
                        BarItems(SortedSeq(current_symbols), loc.today_str, loc.today_str),
                        4, loc)
         ELSE /\ pc' = "du_mark"
              /\ UNCHANGED <<phase, work, rt, chunk, session, loc, flagSeen>>
  /\ UNCHANGED <<envVars, diskVars, doneToday, tickRan, tickIdxInc,
                 harnessVars>>

\* A daily update that takes the end of any pool for its own.
AtAnyPoolEnd == pc = "du_mark" \/ pc = "post"

AtDuMark == pc = "du_mark" \/ (pc = "post" /\ phase = "du_cur")

\* "if not _shutdown": .last-completed and the cache are written.
_run_daily_update_mark ==
  /\ AtDuMark
  /\ IF ~shutdown
     THEN lastCompleted' = loc.today_str /\ doneToday' = today
     ELSE UNCHANGED <<lastCompleted, doneToday>>
  /\ pc' = "loop" /\ loc' = LocInit
  /\ UNCHANGED <<envVars, scanProgress, triedEmpty, indexFiles, daily, min30, fund,
                 phase, work, rt, chunk, session, histVars, harnessVars>>

\* ----------------------------------------------------- phases 3 and 4: bars
RECURSIVE BackfillWorkThroughTomorrow(_, _, _, _)
\* A work list whose fetch ranges end on the day after today.
BackfillWorkThroughTomorrow(syms, store, floor, today_str) ==
  IF syms = << >> THEN << >>
  ELSE LET symbol == Head(syms)
           latest == LatestDate(store, symbol)
           fetch_start == IF latest = 0 THEN floor ELSE latest + 1
           rest == BackfillWorkThroughTomorrow(Tail(syms), store, floor, today_str)
       IN  IF fetch_start > today_str + 1 THEN rest
           ELSE <<Item(symbol, 0, fetch_start, today_str + 1)>> \o rest

RECURSIVE BackfillWorkFromLatest(_, _, _, _)
\* A work list whose ranges begin on the latest stored date itself.
BackfillWorkFromLatest(syms, store, floor, today_str) ==
  IF syms = << >> THEN << >>
  ELSE LET symbol == Head(syms)
           latest == LatestDate(store, symbol)
           fetch_start == IF latest = 0 THEN floor ELSE latest
           rest == BackfillWorkFromLatest(Tail(syms), store, floor, today_str)
       IN  IF latest # 0 /\ latest >= today_str THEN rest
           ELSE IF fetch_start > today_str THEN rest
           ELSE <<Item(symbol, 0, fetch_start, today_str)>> \o rest

RECURSIVE BackfillWork(_, _, _, _)
\* The work list of _bar_backfill and _30min_backfill.
BackfillWork(syms, store, floor, today_str) ==
  IF syms = << >> THEN << >>
  ELSE LET symbol == Head(syms)
           latest == LatestDate(store, symbol)
           fetch_start == IF latest = 0 THEN floor ELSE latest + 1
           rest == BackfillWork(Tail(syms), store, floor, today_str)
       IN  IF latest # 0 /\ latest >= today_str THEN rest
           ELSE IF fetch_start > today_str THEN rest
           ELSE <<Item(symbol, 0, fetch_start, today_str)>> \o rest

\* A backfill method that never reports work.
DidWorkNever(total) == FALSE

\* did_work: what a backfill method returns.
DidWork(total) == total > 0

\* run, step 3, and _bar_backfill up to the start of its pool.
_bar_backfill ==
  /\ pc = "loop" /\ ~shutdown
  /\ _index_history_complete
  /\ ~_should_run_daily_update
  /\ doneToday' = DoneTodayAfterCheck
  /\ LET items == BackfillWork(_all_index_symbols(indexFiles), daily, StartDate, today)
     IN  /\ TickBegins("bars", Len(items))
         /\ IF items = << >>
            THEN /\ pc' = "ret_bars"
                 /\ UNCHANGED <<phase, work, rt, chunk, session, loc, flagSeen>>
            ELSE StartPool("bars", items, 1, [LocInit EXCEPT !.today_str = today])
  /\ UNCHANGED <<envVars, diskVars, harnessVars>>

PostBars ==
  /\ pc = "post" /\ phase = "bars"
  /\ pc' = IF DidWork(loc.total) THEN "loop" ELSE "ret_bars"
  /\ loc' = LocInit
  /\ UNCHANGED <<envVars, diskVars, doneToday, phase, work, rt, chunk, session,
                 histVars, harnessVars>>

\* run, step 4 ("if not did_work"), and _30min_backfill.
_30min_backfill ==
  /\ pc = "ret_bars"
  /\ LET items == BackfillWork(_all_index_symbols(indexFiles), min30,
                               BAR_30MIN_START, today)
     IN  /\ tickRan' = Append(tickRan, [ph |-> "30min", n |-> Len(items), rows |-> 0])
         /\ IF items = << >>
            THEN /\ pc' = "ret_30"
                 /\ UNCHANGED <<phase, work, rt, chunk, session, loc, flagSeen>>
            ELSE StartPool("30min", items, 1, [LocInit EXCEPT !.today_str = today])
  /\ UNCHANGED <<envVars, diskVars, doneToday, tickIdxInc, harnessVars>>

Post30min ==
  /\ pc = "post" /\ phase = "30min"
  /\ pc' = IF DidWork(loc.total) THEN "loop" ELSE "ret_30"
  /\ loc' = LocInit
  /\ UNCHANGED <<envVars, diskVars, doneToday, phase, work, rt, chunk, session,
                 histVars, harnessVars>>

\* ----------------------------------------------------- phase 5: fundamentals
RECURSIVE FundWork(_, _, _, _)
\* The work list of _fundamentals_backfill.
FundWork(syms, files, tried_empty, now) ==
  IF syms = << >> THEN << >>
  ELSE LET symbol == Head(syms)
           needs_work == \E t \in FundTypes :
               TargetQuarters(now) \ _get_existing_quarters(files[t][symbol]) # {}
           rest == FundWork(Tail(syms), files, tried_empty, now)
       IN  IF symbol \in tried_empty THEN rest
           ELSE IF needs_work
           THEN <<Item(symbol, 0, FUNDAMENTAL_START_YEAR, 0)>> \o rest
           ELSE rest

\* A pass that begins with an empty memo whatever the file holds.
tried_empty_not_loaded == {}

\* _load_fundamentals_tried_empty: the symbols listed in .tried-empty.
_load_fundamentals_tried_empty == triedEmpty

\* run, step 5 ("if not did_work"), and _fundamentals_backfill; with no
\* work it returns False and run sleeps.
_fundamentals_backfill ==
  /\ pc = "ret_30"
  /\ LET tried_empty == _load_fundamentals_tried_empty
         items == FundWork(_all_index_symbols(indexFiles), fund, tried_empty, today)
     IN  /\ tickRan' = Append(tickRan, [ph |-> "fund", n |-> Len(items), rows |-> 0])
         /\ IF items = << >>
            THEN /\ pc' = "sleep"
                 /\ UNCHANGED <<phase, work, rt, chunk, session, loc, flagSeen>>
            ELSE StartPool("fund", items, 1, [LocInit EXCEPT !.tried = tried_empty])
  /\ UNCHANGED <<envVars, diskVars, doneToday, tickIdxInc, harnessVars>>

\* self._save_fundamentals_tried_empty(tried_empty); return total_rows > 0
PostFund ==
  /\ pc = "post" /\ phase = "fund"
  /\ triedEmpty' = loc.tried
  /\ pc' = IF DidWork(loc.total) THEN "loop" ELSE "sleep"
  /\ loc' = LocInit
  /\ UNCHANGED <<envVars, scanProgress, lastCompleted, indexFiles, daily, min30, fund,
                 doneToday, phase, work, rt, chunk, session, histVars, harnessVars>>

\* self._sleep(60) returns: after its 60 passes, or earlier on _shutdown.
_sleep ==
  /\ pc = "sleep"
  /\ pc' = "loop"
  /\ UNCHANGED <<envVars, diskVars, doneToday, phase, work, rt, chunk, session, loc,
                 histVars, harnessVars>>

\* ----------------------------------------------------- the daemon
Next ==
  \/ ClockTick
  \/ _handle_signal
  \/ Restart
  \/ LoopExit
  \/ _build_index_history
  \/ _build_index_history_calendar_error
  \/ PostIndex
  \/ _run_daily_update
  \/ _run_daily_update_refresh
  \/ _run_daily_update_new
  \/ _run_daily_update_current
  \/ _run_daily_update_mark
  \/ _bar_backfill
  \/ PostBars
  \/ _30min_backfill
  \/ Post30min
  \/ _fundamentals_backfill
  \/ PostFund
  \/ _sleep
  \/ \E k \in 1..Len(rt) : _task_fetch_index(k)
  \/ \E k \in 1..Len(rt) : _task_fetch_bars(k)
  \/ \E k \in 1..Len(rt) : _task_fetch_bars_write(k)
  \/ \E k \in 1..Len(rt) : _task_fetch_30min(k)
  \/ \E k \in 1..Len(rt) : _task_fetch_30min_write(k)
  \/ \E k \in 1..Len(rt) : _task_fetch_fundamentals(k)
  \/ \E k \in 1..Len(rt) : _task_fetch_fundamentals_write(k)
  \/ \E k \in 1..Len(rt) : Consume(k)
  \/ \E k \in 1..Len(rt) : Reraise(k)
  \/ _worker_init_login_fails

Spec == Init /\ [][Next]_vars

\* The steps of the parent process, and the steps of the workers.
SchedulerStep ==
  \/ LoopExit
  \/ _build_index_history
  \/ PostIndex
  \/ _run_daily_update
  \/ _run_daily_update_refresh
  \/ _run_daily_update_new
  \/ _run_daily_update_current
  \/ _run_daily_update_mark
  \/ _bar_backfill
  \/ PostBars
  \/ _30min_backfill
  \/ Post30min
  \/ _fundamentals_backfill
  \/ PostFund
  \/ _sleep
  \/ \E k \in 1..Len(rt) : Consume(k)
  \/ \E k \in 1..Len(rt) : Reraise(k)

WorkerStep ==
  \/ \E k \in 1..Len(rt) : _task_fetch_index(k)
  \/ \E k \in 1..Len(rt) : _task_fetch_bars(k)
  \/ \E k \in 1..Len(rt) : _task_fetch_bars_write(k)
  \/ \E k \in 1..Len(rt) : _task_fetch_30min(k)
  \/ \E k \in 1..Len(rt) : _task_fetch_30min_write(k)
  \/ \E k \in 1..Len(rt) : _task_fetch_fundamentals(k)
  \/ \E k \in 1..Len(rt) : _task_fetch_fundamentals_write(k)

\* The daemon with its scheduling: the parent process takes its next step
\* whenever it has one, and so do the workers (every query is answered,
\* every write ends). The clock, the signals, the faults and the restarts
\* are left to the environment.
SpecLive == Init /\ [][Next]_vars /\ WF_vars(SchedulerStep) /\ WF_vars(WorkerStep)

\* ----------------------------------------------------- a pool with more
\* items than workers
\* The daemon on day 1 after the cutoff, index history and the daily update
\* done, the first csi300 file listing any symbols of Syms and no bar stored:
\* _bar_backfill hands one item per listed symbol to its pool of NUM_WORKERS
\* workers, the pool runs (a signal may cancel it), and _bar_backfill returns.
PoolInit ==
  /\ today = 1 /\ afterCutoff = TRUE /\ shutdown = FALSE
  /\ faults = 0 /\ restarts = 0
  /\ pc = "loop" /\ doneToday = 1
  /\ scanProgress = 1 /\ lastCompleted = 1 /\ triedEmpty = {}
  /\ \E members \in SUBSET Syms :
        /\ members # {}
        /\ indexFiles = [i \in Indexes |-> [d \in Days |->
                            IF i = 1 /\ d = 1 THEN members ELSE {}]]
  /\ daily = EmptyStore /\ min30 = EmptyStore
  /\ fund = [t \in FundTypes |-> [s \in Syms |-> NoFile]]
  /\ phase = "none" /\ work = << >> /\ rt = << >> /\ chunk = 1
  /\ session = TRUE
  /\ loc = LocInit
  /\ tickRan = << >> /\ tickIdxInc = FALSE /\ flagSeen = FALSE
  /\ UpsertIdle /\ ReaderIdle /\ SleepIdle

PoolNext ==
  \/ _handle_signal
  \/ _bar_backfill
  \/ PostBars
  \/ \E k \in 1..Len(rt) : _task_fetch_bars(k)
  \/ \E k \in 1..Len(rt) : _task_fetch_bars_write(k)
  \/ \E k \in 1..Len(rt) : Consume(k)
  \/ \E k \in 1..Len(rt) : Reraise(k)

SpecPool == PoolInit /\ [][PoolNext]_vars

\* ----------------------------------------------------- the backfill loop
\* in a fixed quarter
\* The daemon from the same start (day 1 after the cutoff, index history and
\* the daily update done, stores empty), the universe being symbol 1, of
\* which the source holds a statement, symbol 2, of which it holds none, or
\* both. The clock stands still and no signal arrives: run goes round its
\* backfill phases, a query or a write may fail, and a daemon that ended
\* with an exception is started again.
FundInit == PoolInit /\ Universe(indexFiles) \subseteq {1, 2}

FundSchedulerStep ==
  \/ _bar_backfill
  \/ PostBars
  \/ _30min_backfill
  \/ _fundamentals_backfill
  \/ PostFund
  \/ _sleep
  \/ \E k \in 1..Len(rt) : Consume(k)
  \/ \E k \in 1..Len(rt) : Reraise(k)

FundWorkerStep ==
  \/ \E k \in 1..Len(rt) : _task_fetch_bars(k)
  \/ \E k \in 1..Len(rt) : _task_fetch_bars_write(k)
  \/ \E k \in 1..Len(rt) : _task_fetch_fundamentals(k)
  \/ \E k \in 1..Len(rt) : _task_fetch_fundamentals_write(k)

FundNext ==
  \/ Restart
  \/ _worker_init_login_fails
  \/ FundSchedulerStep
  \/ FundWorkerStep

\* The parent takes its next step whenever it has one, and so do the workers.
SpecFund ==
  FundInit /\ [][FundNext]_vars /\ WF_vars(FundSchedulerStep) /\ WF_vars(FundWorkerStep)

\* ----------------------------------------------------- the upsert harness
\* One partition file of kind ukind (ufile) and the three writers applied to
\* it with every list of incoming rows within the bounds. The rows carry the
\* symbol of the partition, as every caller's rows do.
\*   uprev   the file before the last call
\*   uin     the incoming rows of the last call
\*   uonce   the file after the first call with uin
\*   ucalls  how often uin has been written in a row (0: the write was killed)
\*   uever   history: the latest row of every key a finished call was given
UKinds == {"daily", "30min", "fund"}

\* The times of the rows of date d: a later date has one bar fewer.
UTimes(kind, d) ==
  IF kind = "30min" THEN {t \in 1..MaxUTime : d + t <= MaxUDate + 1} ELSE {0}

URows(kind) ==
  UNION {{Row(1, d, t, v) : t \in UTimes(kind, d), v \in 1..MaxUVal} : d \in 1..MaxUDate}

USeqs(kind) ==
  UNION {[1..n -> URows(kind)] : n \in 0..MaxIncoming}

\* The last row of rows for each of its keys.
LastPerKey(kind, rows) ==
  {rows[i] : i \in {i \in 1..Len(rows) :
      \A j \in (i + 1)..Len(rows) : KeyOf(kind, rows[j]) # KeyOf(kind, rows[i])}}

KeysOf(kind, rows) == {KeyOf(kind, rows[i]) : i \in 1..Len(rows)}

UpsertInit ==
  /\ DaemonInit
  /\ ukind \in UKinds
  /\ ufile = NoFile /\ uprev = NoFile /\ uin = << >>
  /\ uever = {} /\ uonce = NoFile /\ ucalls = 0
  /\ ReaderIdle /\ SleepIdle

daemonVars == <<envVars, diskVars, procVars, histVars>>

\* A call of the writer of ukind that returns.
UpsertRows ==
  /\ \E rows \in USeqs(ukind) :
       /\ uprev' = ufile
       /\ uin' = rows
       /\ ufile' = WriteParquet(ukind, ufile, rows)
       /\ uonce' = ufile'
       /\ uever' = {r \in uever : KeyOf(ukind, r) \notin KeysOf(ukind, rows)}
                     \cup LastPerKey(ukind, rows)
  /\ ucalls' = 1
  /\ UNCHANGED <<ukind, daemonVars, readerVars, sleepVars>>

\* The same call once more, with the same incoming rows.
UpsertAgain ==
  /\ ucalls = 1
  /\ ufile' = WriteParquet(ukind, ufile, uin)
  /\ ucalls' = 2
  /\ UNCHANGED <<ukind, uprev, uin, uonce, uever, daemonVars, readerVars, sleepVars>>

\* A call whose process is killed inside pq.write_table (pool.terminate()):
\* the path is left with a partial file.
UpsertKilled ==
  /\ ufile.st # "torn"
  /\ uprev' = ufile
  /\ ufile' = TornFile
  /\ uin' = << >> /\ uonce' = NoFile /\ ucalls' = 0
  /\ UNCHANGED <<ukind, uever, daemonVars, readerVars, sleepVars>>

UpsertNext == UpsertRows \/ UpsertAgain \/ UpsertKilled

SpecUpsert == UpsertInit /\ [][UpsertNext]_vars

\* ----------------------------------------------------- the reader harness
\* jupitor/data.py: read_daily_bars and list_symbols over one market's
\* directory <data_dir>/<market>/daily, applied to every directory within
\* the bounds.
\*   rdir    the directory: whether it exists, and what each name in it is
\*           (name 0 is ".last-completed", the names 1..MaxName are symbol
\*           codes; a name is absent, a plain file or a sub-directory)
\*   rfiles  the <year>.parquet files in the sub-directory of symbol 1 (the
\*           other sub-directories hold no file)
\*   rres    the last call and what it returned
Names == 0..MaxName
EntryKinds == {"none", "file", "dir"}

\* The files a year's path may hold: none, a partial write, a file without
\* rows, the file with the bars of the year.
YearFiles(y) ==
  {NoFile, TornFile, OkFile(<< >>),
   OkFile(RowsOfDays("daily", 1, SortedSeq({d \in Days : YearOf(d) = y})))}

ReaderInit ==
  /\ DaemonInit /\ UpsertIdle /\ SleepIdle
  /\ \E ex \in BOOLEAN, entries \in [Names -> EntryKinds] :
        /\ ~ex => \A n \in Names : entries[n] = "none"
        /\ rdir = [exists |-> ex, entries |-> entries]
  /\ rfiles \in [Years -> UNION {YearFiles(y) : y \in Years}]
  /\ \A y \in Years : rfiles[y] \in YearFiles(y)
  /\ rdir.entries[1] # "dir" => \A y \in Years : rfiles[y] = NoFile
  /\ rres = [fn |-> "none", symbol |-> 0, year |-> 0, raised |-> FALSE, out |-> << >>]

\* Path.exists() of <market_dir>/<name>.
PathExists(name) == rdir.exists /\ rdir.entries[name] # "none"

\* The file at <symbol_dir>/<year>.parquet.
ParquetAt(symbol, year) ==
  IF rdir.exists /\ rdir.entries[symbol] = "dir" /\ symbol = 1
  THEN rfiles[year] ELSE NoFile

\* pd.DataFrame(): no row. pd.read_parquet raises on a file that is no
\* complete parquet file.
DataFrame(rows) == [raised |-> FALSE, out |-> rows]
Raised == [raised |-> TRUE, out |-> << >>]
pd_read_parquet(file) == IF file.st = "ok" THEN DataFrame(file.rows) ELSE Raised

\* frames of read_daily_bars and pd.concat(frames): the files in the order
\* given, the first file that cannot be read ends the call.
RECURSIVE ReadAll(_, _)
ReadAll(symbol, ys) ==
  IF ys = << >> THEN DataFrame(<< >>)
  ELSE LET f == pd_read_parquet(ParquetAt(symbol, Head(ys)))
           rest == ReadAll(symbol, Tail(ys))
       IN  IF f.raised \/ rest.raised THEN Raised
           ELSE DataFrame(f.out \o rest.out)

\* sorted(symbol_dir.glob("*.parquet")): "<year>.parquet" in name order.
GlobParquet(symbol) ==
  SortedSeq({y \in Years : ParquetAt(symbol, y).st # "absent"})

\* read_daily_bars(symbol, market, year); year 0 stands for None.
read_daily_bars(symbol, year) ==
  IF ~PathExists(symbol) THEN DataFrame(<< >>)
  ELSE IF year # 0
  THEN IF ParquetAt(symbol, year).st = "absent" THEN DataFrame(<< >>)
       ELSE pd_read_parquet(ParquetAt(symbol, year))
  ELSE LET frames == GlobParquet(symbol)
       IN  IF frames = << >> THEN DataFrame(<< >>)
           ELSE ReadAll(symbol, frames)

\* A listing that takes every name in the directory.
list_symbols_every_entry ==
  IF ~rdir.exists THEN << >>
  ELSE SortedSeq({n \in Names : rdir.entries[n] # "none"})

\* list_symbols(market): sorted(d.name for d in iterdir() if d.is_dir()).
list_symbols ==
  IF ~rdir.exists THEN << >>
  ELSE SortedSeq({n \in Names : rdir.entries[n] = "dir"})

CallReadDailyBars ==
  /\ \E symbol \in 1..MaxName, year \in {0} \cup Years :
        LET df == read_daily_bars(symbol, year)
        IN  rres' = [fn |-> "read_daily_bars", symbol |-> symbol, year |-> year,
                     raised |-> df.raised, out |-> df.out]
  /\ UNCHANGED <<rdir, rfiles, daemonVars, upsertVars, sleepVars>>

CallListSymbols ==
  /\ rres' = [fn |-> "list_symbols", symbol |-> 0, year |-> 0,
              raised |-> FALSE, out |-> list_symbols]
  /\ UNCHANGED <<rdir, rfiles, daemonVars, upsertVars, sleepVars>>

ReaderNext == CallReadDailyBars \/ CallListSymbols

SpecRead == ReaderInit /\ [][ReaderNext]_vars

\* ----------------------------------------------------- the idle-wait harness
\* One call self._sleep(60) of run, second by second, with _shutdown set
\* before the call or by a signal during it.
\*   spc     where _sleep is: at "if _shutdown" ("test"), inside
\*           time.sleep(1) ("sleeping"), or returned
\*   sunits  the calls of time.sleep(1) that have returned
\*   safter  those of them that returned with _shutdown set
\*   sentry  _shutdown was set when _sleep was called
SleepSeconds == 60

SleepInit ==
  /\ today = 1 /\ afterCutoff = FALSE /\ shutdown \in BOOLEAN
  /\ faults = 0 /\ restarts = 0
  /\ pc = "sleep" /\ doneToday = 0
  /\ scanProgress = 0 /\ lastCompleted = 0 /\ triedEmpty = {}
  /\ indexFiles = [i \in Indexes |-> [d \in Days |-> {}]]
  /\ daily = EmptyStore /\ min30 = EmptyStore
  /\ fund = [t \in FundTypes |-> [s \in Syms |-> NoFile]]
  /\ phase = "none" /\ work = << >> /\ rt = << >> /\ chunk = 1
  /\ session = TRUE
  /\ loc = LocInit
  /\ tickRan = << >> /\ tickIdxInc = FALSE /\ flagSeen = FALSE
  /\ UpsertIdle /\ ReaderIdle
  /\ spc = "test" /\ sunits = 0 /\ safter = 0 /\ sentry = shutdown

\* A loop that sleeps its seconds without looking at _shutdown.
SleepTestBlind ==
  /\ spc = "test"
  /\ spc' = "sleeping"
  /\ UNCHANGED <<sunits, safter, sentry, daemonVars, upsertVars, readerVars>>

\* "for _ in range(seconds): if _shutdown: break"
SleepTest ==
  /\ spc = "test"
  /\ spc' = IF shutdown THEN "returned" ELSE "sleeping"
  /\ UNCHANGED <<sunits, safter, sentry, daemonVars, upsertVars, readerVars>>

\* time.sleep(1) returns (a signal handler that ran meanwhile does not cut
\* it short), and the loop goes to its next pass or ends.
SleepUnit ==
  /\ spc = "sleeping"
  /\ sunits' = sunits + 1
  /\ safter' = IF shutdown THEN safter + 1 ELSE safter
  /\ spc' = IF sunits + 1 = SleepSeconds THEN "returned" ELSE "test"
  /\ UNCHANGED <<sentry, daemonVars, upsertVars, readerVars>>

SleepNext == SleepTest \/ SleepUnit \/ _handle_signal

\* Every second of the wait passes.
SpecSleep == SleepInit /\ [][SleepNext]_vars /\ WF_vars(SleepTest \/ SleepUnit)

\* ----------------------------------------------------- properties: upsert
\* The uniqueness key of a partition's rows: date for daily bars, (date,
\* time) for 30-minute bars, (code, statement date) for fundamentals.
UniqKeyOf(kind, r) ==
  CASE kind = "daily" -> <<r.date>>
    [] kind = "30min" -> <<r.date, r.time>>
    [] OTHER -> <<r.symbol, r.date>>

NoDupKeys(kind, rows) ==
  \A i, j \in 1..Len(rows) : i # j => KeyOf(kind, rows[i]) # KeyOf(kind, rows[j])

\* C5 as stated: whenever the partition file can be read, it holds exactly
\* the latest row of every key ever upserted into it, one row per key, also
\* after an upsert whose read of the existing file raised.
C5_CompleteSnapshot ==
  ufile.st = "ok" => (SeqToSet(ufile.rows) = uever /\ NoDupKeys(ukind, ufile.rows))

\* C6: one upsert into a readable (or not yet existing) partition keeps the
\* last incoming row of every incoming key, keeps every other existing row
\* unchanged, adds nothing else, leaves no key twice, and leaves the rows
\* ascending by the uniqueness key.
C6_UpsertMerges ==
  (ucalls = 1 /\ uprev.st # "torn") =>
    LET out == ufile.rows
        old == uprev.rows
    IN  /\ LastPerKey(ukind, uin) \subseteq SeqToSet(out)
        /\ \A r \in SeqToSet(old) :
              KeyOf(ukind, r) \notin KeysOf(ukind, uin) => r \in SeqToSet(out)
        /\ SeqToSet(out) \subseteq SeqToSet(old) \cup LastPerKey(ukind, uin)
        /\ NoDupKeys(ukind, out)
        /\ \A i, j \in 1..Len(out) :
              i < j => LexLt(UniqKeyOf(ukind, out[i]), UniqKeyOf(ukind, out[j]))

\* An upsert of two rows with one key into a partition that holds that key
\* with another value and a second key besides.
C6_Witness ==
  /\ ucalls = 1 /\ uprev.st = "ok" /\ Len(uprev.rows) >= 2
  /\ Len(uin) = 2 /\ uin[1] # uin[2]
  /\ KeyOf(ukind, uin[1]) = KeyOf(ukind, uin[2])
  /\ \E r \in SeqToSet(uprev.rows) :
        KeyOf(ukind, r) = KeyOf(ukind, uin[2]) /\ r # uin[2]

\* C7: writing the same incoming rows a second time leaves the partition
\* file row for row as the first write left it.
C7_Idempotent == ucalls = 2 => ufile = uonce

\* The second write of rows that replaced one key of a partition and left
\* another alone.
C7_Witness ==
  /\ ucalls = 2 /\ uin # << >> /\ uprev.st = "ok"
  /\ KeysOf(ukind, uin) \cap KeysOf(ukind, uprev.rows) # {}
  /\ KeysOf(ukind, uprev.rows) \ KeysOf(ukind, uin) # {}
  /\ SeqToSet(uin) \cap SeqToSet(uprev.rows) = {}

\* ----------------------------------------------------- properties: scheduler
\* C1: in an iteration that began with .scan-progress absent or earlier than
\* yesterday, the scheduler called _build_index_history and no other phase
\* method.
C1_IndexHistoryFirst ==
  tickIdxInc => (tickRan # << >> /\ \A i \in 1..Len(tickRan) : tickRan[i].ph = "index")

\* The index pool runs in such an iteration while a symbol of the universe
\* has no bar of today.
C1_Witness ==
  /\ tickIdxInc /\ pc = "pool" /\ phase = "index"
  /\ \E s \in Universe(indexFiles) : LatestDate(daily, s) < today

BarBackfillAt ==
  /\ pc = "loop" /\ ~shutdown
  /\ _index_history_complete /\ ~_should_run_daily_update

StoredDates(store, s) ==
  UNION {FileDates(store[s][y]) : y \in {y \in Years : store[s][y].st = "ok"}}

\* C3 as stated: when _bar_backfill skips a symbol because its latest stored
\* date is today or later, the store holds every daily bar the source offers
\* for the symbol from start_date to today.
C3_SkippedIsCovered ==
  BarBackfillAt =>
    \A s \in Universe(indexFiles) :
      (LatestDate(daily, s) # 0 /\ LatestDate(daily, s) >= today) =>
        SrcBarDays(StartDate, today, today, afterCutoff) \subseteq StoredDates(daily, s)

\* C4: .scan-progress changes only at the end of a pass that did not see
\* _shutdown set, and .last-completed changes only at the end of
\* _run_daily_update with _shutdown unset and never seen set.
C4_MarkersAfterCompletion ==
  [][ /\ scanProgress' # scanProgress => ~flagSeen
      /\ lastCompleted' # lastCompleted => (AtDuMark /\ ~shutdown /\ ~flagSeen)
    ]_vars

\* A cancelled index pass has returned: files were written, no marker was.
C4_Witness ==
  /\ pc = "loop" /\ phase = "index" /\ flagSeen
  /\ scanProgress = 0 /\ Universe(indexFiles) # {}

\* C8 as stated: no partition file is ever left partially written.
C8_NeverPartial ==
  /\ \A s \in Syms, y \in Years : daily[s][y].st # "torn" /\ min30[s][y].st # "torn"
  /\ \A t \in FundTypes, s \in Syms : fund[t][s].st # "torn"

\* The files an item of a batch of phase ph reads, merges and writes.
FilesOf(ph, item) ==
  CASE ph = "index" -> {<<"index", item.idx, item.lo>>}
    [] ph \in BarPhases -> {<<"daily", item.sym, YearOf(d)>> : d \in item.lo..item.hi}
    [] ph = "30min" -> {<<"30min", item.sym, YearOf(d)>> : d \in item.lo..item.hi}
    [] OTHER -> {<<"fund", t, item.sym>> : t \in FundTypes}

\* C9: no two items of the batch a pool runs map to the same file.
C9_DisjointFiles ==
  pc = "pool" =>
    \A i, j \in 1..Len(work) :
      i # j => FilesOf(phase, work[i]) \cap FilesOf(phase, work[j]) = {}

\* A bar backfill batch with an item for each of two symbols.
C9_Witness ==
  /\ pc = "pool" /\ phase = "bars" /\ Len(work) >= 2

\* C10: with a .scan-progress of date D, every item of the index batch is for
\* a date after D.
C10_OnlyAfterMarker ==
  (pc = "pool" /\ phase = "index" /\ scanProgress # 0) =>
    \A k \in 1..Len(work) : work[k].lo > scanProgress

\* An index batch built from a marker by a restarted process.
C10_Witness ==
  /\ pc = "pool" /\ phase = "index" /\ scanProgress # 0 /\ restarts > 0
  /\ Len(work) > 0

\* ----------------------------------------------------- properties: work lists
\* C11: with the current date T, no item of a running batch reaches past T:
\* an index item is for a date <= T, a daily or 30-minute item has
\* fetch_start <= fetch_end = T, and no target quarter of a fundamentals item
\* lies after the quarter of T.
C11_NoRangePastToday ==
  pc = "pool" =>
    \A k \in 1..Len(work) :
      CASE phase = "index" -> work[k].lo <= loc.today_str /\ loc.today_str <= today
        [] phase \in BarPhases \cup {"30min"} ->
             /\ work[k].lo <= work[k].hi
             /\ work[k].hi = loc.today_str
             /\ loc.today_str <= today
        [] OTHER ->
             /\ work[k].lo = FUNDAMENTAL_START_YEAR
             /\ \A q \in TargetQuarters(today) : work[k].lo <= q /\ q <= QuarterOf(today)

\* A 30-minute batch on the last day whose item fetches from the 30-minute
\* floor through today.
C11_Witness ==
  /\ pc = "pool" /\ phase = "30min" /\ today = MaxDay
  /\ \E k \in 1..Len(work) : work[k].lo = BAR_30MIN_START /\ work[k].hi = today

\* ----------------------------------------------------- properties: index files
\* C12 as stated: the known universe, the union of the symbols of all index
\* files, never loses a symbol.
C12_UniverseNeverShrinks ==
  [][Universe(indexFiles) \subseteq Universe(indexFiles')]_vars

\* C13 as stated: an index file that exists is never changed: no step of
\* the index history or of the daily update gives an existing file other
\* contents.
C13_SnapshotImmutable ==
  [][\A i \in Indexes, d \in Days :
        indexFiles[i][d] # {} => indexFiles'[i][d] = indexFiles[i][d]]_vars

\* ----------------------------------------------------- properties: fundamentals
\* A fundamentals pass is over: _fundamentals_backfill returns, or the
\* process that died or hung inside it is replaced.
FundPassEnds ==
  /\ phase = "fund" /\ pc \in {"post", "crashed", "hung"}
  /\ pc' \notin {"pool", "post", "crashed", "hung"}

\* C14 as stated: when a fundamentals pass is over, every symbol whose
\* result it counted with zero rows is in .tried-empty (and so, the work
\* list leaving out the symbols of the file, in no later batch, also after
\* a restart).
C14_EmptyIsMemoed ==
  [][FundPassEnds => loc.tried \subseteq triedEmpty']_vars

\* ----------------------------------------------------- properties: cursors
\* Item k of a daily or 30-minute backfill batch ends in this step with no
\* row.
EndsEmpty(k) ==
  /\ pc = "pool" /\ phase \in {"bars", "30min"}
  /\ Len(rt') = Len(rt)
  /\ rt[k].st = "queued" /\ rt'[k].st = "done" /\ rt'[k].cnt = 0

\* C15 as stated: a daily or 30-minute fetch that got nothing moves the
\* cursor of its symbol: the work list enumerated from the store it leaves
\* (on the same day) no longer holds the symbol with that range.
C15_EmptyFetchAdvances ==
  [][\A k \in 1..Len(rt) :
        EndsEmpty(k) =>
          LET again == IF phase = "bars"
                       THEN BackfillWork(<<work[k].sym>>, daily', StartDate, work[k].hi)
                       ELSE BackfillWork(<<work[k].sym>>, min30', BAR_30MIN_START,
                                         work[k].hi)
          IN  work[k] \notin SeqToSet(again)]_vars

\* ----------------------------------------------------- properties: shutdown
\* C16 as stated: once _shutdown is set, no worker begins an item that was
\* still queued, no further phase method is called (so no work list is
\* enumerated), and no pool is created.
C16_NoNewWorkAfterFlag ==
  [][shutdown =>
       /\ \A k \in 1..Len(rt) :
             (Len(rt') = Len(rt) /\ rt[k].st = "queued") => rt'[k].st = "queued"
       /\ Len(tickRan') <= Len(tickRan)
       /\ ~(pc # "pool" /\ pc' = "pool")]_vars

\* C17 as stated: after _shutdown is set the daemon eventually ends the
\* running pool, leaves the loop of run and logs out.
C17_EventuallyStops == shutdown ~> (pc \in {"stopped", "crashed"})

\* ----------------------------------------------------- properties: errors
\* C18 as stated: the process never ends on a failure: it leaves the loop
\* of run only with _shutdown set, and no exception ends it.
C18_NeverExitsOnFailure ==
  /\ pc # "crashed"
  /\ pc = "stopped" => shutdown

\* The step in which query_trade_dates reports an error to
\* _build_index_history.
CalendarFails == pc = "loop" /\ faults' = faults + 1

\* C19 as stated: a failure of the trading-calendar query ends that pass
\* only: .scan-progress and the index files are as before, and run is back
\* at the top of its loop, where the next pass begins at the same cursor.
C19_CalendarFailureAbortsPassOnly ==
  [][CalendarFails =>
       /\ scanProgress' = scanProgress /\ indexFiles' = indexFiles
       /\ pc' = "loop"]_vars

\* C20 as stated: what a task raises stays with its item: the pass goes on
\* with the other items and returns; the process does not end on it.
C20_ItemErrorsStayLocal ==
  [][(pc = "pool" /\ \E k \in 1..Len(rt) : rt[k].st = "raised") =>
        pc' \in {"pool", "post"}]_vars

\* C21: a pass whose workers failed to log in when the pool started records
\* no progress: from the failed login until the phase method has returned,
\* no marker (.scan-progress, .last-completed) changes and no symbol enters
\* .tried-empty.
C21_NoProgressWithoutSession ==
  [][(~session /\ pc \in {"pool", "post"}) =>
        /\ scanProgress' = scanProgress
        /\ lastCompleted' = lastCompleted
        /\ triedEmpty' = triedEmpty]_vars

\* The source answers the query of (index i, day d) at some clock with
\* success and no member.
EmptySuccess(i, d) ==
  \E now \in d..MaxDay, cutoff \in BOOLEAN : SrcMembers(i, d, now, cutoff) = {}

\* C22: .scan-progress is never past a trading day for which some tracked
\* index has neither a snapshot file nor an empty answer of the source: a
\* failed (date, index) query is left for a later pass.
C22_FailedItemIsRetried ==
  \A d \in StartDate..scanProgress : \A i \in Indexes :
     IsTradingDay(d) => indexFiles[i][d] # {} \/ EmptySuccess(i, d)

\* _build_index_history returns without having started a pool (there was
\* nothing to fetch), and the calendar query did not fail.
IndexPassWithoutPool ==
  /\ pc = "loop" /\ ~shutdown /\ ~_index_history_complete
  /\ pc' = "loop" /\ UNCHANGED <<today, afterCutoff, shutdown>>
  /\ tickRan'[1].ph = "index"

\* _build_index_history returns after its pool, not cancelled, on the day
\* it began.
IndexPassAfterPool ==
  /\ pc = "post" /\ phase = "index" /\ loc.completed /\ loc.today_str = today
  /\ pc' = "loop"

\* C23: an index-history pass that runs to its end without cancellation and
\* without calendar failure leaves the phase complete (.scan-progress is
\* yesterday or later), also when it had nothing to store.
C23_PassLeavesPhaseComplete ==
  [][(IndexPassWithoutPool \/ IndexPassAfterPool) =>
        (scanProgress' # 0 /\ scanProgress' >= today' - 1)]_vars

DailyUpdateStarts == pc = "loop" /\ pc' = "du_refresh"

\* C25: a daily update starts only at or after the cutoff and only when no
\* daily update has completed for the current day: with .last-completed on
\* today's date none starts, whether this process wrote the marker or an
\* earlier one did.
C25_OncePerDayAfterCutoff ==
  [][DailyUpdateStarts =>
        afterCutoff /\ lastCompleted # today /\ doneToday # today]_vars

\* The daily update of today is complete, the process was started again
\* and is back at the top of its loop after the cutoff.
C25_Witness ==
  /\ pc = "loop" /\ ~shutdown /\ restarts > 0 /\ doneToday = 0
  /\ afterCutoff /\ lastCompleted = today /\ _index_history_complete

\* The rows of the year files 1..n of a symbol, in ascending order of name.
RECURSIVE RowsUpTo(_, _)
RowsUpTo(symbol, n) ==
  IF n = 0 THEN << >> ELSE RowsUpTo(symbol, n - 1) \o ParquetAt(symbol, n).rows

\* One of the three cases in which read_daily_bars has nothing to read.
NothingToRead(symbol, year) ==
  \/ ~PathExists(symbol)
  \/ year # 0 /\ ParquetAt(symbol, year).st = "absent"
  \/ \A y \in Years : ParquetAt(symbol, y).st = "absent"

\* C26: read_daily_bars never raises; it returns no row when the symbol's
\* directory does not exist, the requested year's file does not exist or the
\* directory holds no parquet file, and otherwise the rows of the requested
\* year, or of all years in ascending order of file name.
C26_ReadDailyBars ==
  rres.fn = "read_daily_bars" =>
    /\ ~rres.raised
    /\ rres.out = IF NothingToRead(rres.symbol, rres.year) THEN << >>
                  ELSE IF rres.year # 0 THEN ParquetAt(rres.symbol, rres.year).rows
                  ELSE RowsUpTo(rres.symbol, YearOf(MaxDay))

\* C27: list_symbols returns the empty list when the directory does not
\* exist, and otherwise the names of its sub-directories and nothing else,
\* in ascending order, each once; a plain file is never listed.
C27_ListSymbols ==
  rres.fn = "list_symbols" =>
    LET out == rres.out
    IN  /\ ~rdir.exists => out = << >>
        /\ {out[k] : k \in 1..Len(out)} = {n \in Names : PathExists(n) /\ rdir.entries[n] = "dir"}
        /\ \A j, k \in 1..Len(out) : j < k => out[j] < out[k]
        /\ \A k \in 1..Len(out) : rdir.entries[out[k]] # "file"

\* The directory holds the file .last-completed and two symbol
\* directories, and list_symbols returned the two symbols.
C27_Witness ==
  /\ rres.fn = "list_symbols"
  /\ rdir.exists /\ rdir.entries[0] = "file"
  /\ rdir.entries[1] = "dir" /\ rdir.entries[2] = "dir"
  /\ rres.out = <<1, 2>>

\* The step in which _bar_backfill, or _30min_backfill, builds its work
\* list: it starts its pool or, with an empty list, returns.
BarsEnumerated ==
  pc = "loop" /\ (pc' = "ret_bars" \/ (pc' = "pool" /\ phase' = "bars"))
Min30Enumerated ==
  pc = "ret_bars" /\ (pc' = "ret_30" \/ (pc' = "pool" /\ phase' = "30min"))

\* What the enumerators' list holds for symbol s over a store with the given
\* floor: nothing when the latest stored date is today or later, one item
\* [floor, today] when no date is stored, one item [latest + 1, today]
\* otherwise. With guarded, a floor after today gives no item either.
ItemFor(items, store, floor, s, guarded) ==
  LET dates == StoredDates(store, s)
      latest == IF dates = {} THEN 0 ELSE MaxOf(dates)
      mine == {k \in 1..Len(items) : items[k].sym = s}
      one(lo) == /\ Cardinality(mine) = 1
                 /\ \A k \in mine : items[k].lo = lo /\ items[k].hi = today
  IN  IF latest # 0 /\ latest >= today THEN mine = {}
      ELSE IF latest = 0
      THEN (IF guarded /\ floor > today THEN mine = {} ELSE one(floor))
      ELSE one(latest + 1)

EnumeratorCases(guarded) ==
  LET items == IF pc' = "pool" THEN work' ELSE << >>
      store == IF BarsEnumerated THEN daily ELSE min30
      floor == IF BarsEnumerated THEN StartDate ELSE BAR_30MIN_START
  IN  (BarsEnumerated \/ Min30Enumerated) =>
        /\ \A k \in 1..Len(items) : items[k].sym \in Universe(indexFiles)
        /\ \A s \in Universe(indexFiles) : ItemFor(items, store, floor, s, guarded)

\* C28 as stated: for each symbol of the universe the daily-bar and the
\* 30-minute enumerator produce no item when the latest stored date is
\* today or later, an item [floor, today] when no date is stored, and an
\* item [latest + 1 day, today] otherwise; no item for any other symbol.
C28_EnumeratorAsStated == [][EnumeratorCases(FALSE)]_vars

\* C28, amended: the same, and a symbol without a stored date gets no item
\* while the floor is after today.
C28_EnumeratorGuarded == [][EnumeratorCases(TRUE)]_vars

\* The pool of _bar_backfill has just started with an item that resumes on
\* the day after the symbol's latest stored bar, and the pool of
\* _30min_backfill with an item that spans from the floor to today.
C28_Witness ==
  /\ pc = "pool" /\ \A k \in 1..Len(rt) : rt[k].st = "queued"
  /\ \/ /\ phase = "bars"
        /\ \E k \in 1..Len(work) :
              /\ StoredDates(daily, work[k].sym) # {}
              /\ work[k].lo = MaxOf(StoredDates(daily, work[k].sym)) + 1
              /\ work[k].hi = today
     \/ /\ phase = "30min" /\ min30 = EmptyStore
        /\ \E k \in 1..Len(work) : work[k].lo = BAR_30MIN_START /\ work[k].hi = today

\* The step in which _build_index_history builds its work list: it starts
\* its pool or, with an empty list, returns.
IndexEnumerated ==
  \/ pc = "loop" /\ pc' = "pool" /\ phase' = "index"
  \/ IndexPassWithoutPool

\* C29: the index-history enumerator produces exactly one item for each
\* (trading day d, index i) with d in [resume cursor, yesterday] whose file
\* does not exist, and no other item.
C29_ItemsThroughYesterday ==
  [][IndexEnumerated =>
       LET items == IF pc' = "pool" THEN work' ELSE << >>
       IN  \A d \in Days, i \in Indexes :
             Cardinality({k \in 1..Len(items) : items[k].lo = d /\ items[k].idx = i})
               = IF /\ ScanStart <= d /\ d <= today - 1
                    /\ IsTradingDay(d) /\ indexFiles[i][d] = {}
                 THEN 1 ELSE 0]_vars

\* The quarters for which the partition of statement type t and symbol s
\* holds a statement.
PresentQuarters(t, s) ==
  IF fund[t][s].st # "ok" THEN {}
  ELSE {q \in 1..QuarterOf(MaxDay) :
          \E j \in 1..Len(fund[t][s].rows) : QuarterOf(fund[t][s].rows[j].date) = q}

\* The quarters from the floor to the current quarter that the partition
\* of (t, s) lacks.
LackingQuarters(t, s) ==
  {q \in FUNDAMENTAL_START_YEAR..QuarterOf(today) : q \notin PresentQuarters(t, s)}

\* The step in which _fundamentals_backfill builds its work list.
FundEnumerated ==
  pc = "ret_30" /\ (pc' = "sleep" \/ (pc' = "pool" /\ phase' = "fund"))

\* Item k of the fundamentals pool handles its next statement type.
FundTypeHandled(k) ==
  /\ pc \in {"pool", "hung"} /\ phase = "fund" /\ Len(rt') = Len(rt)
  /\ rt[k].st \in {"queued", "run"} /\ rt'[k] # rt[k]

\* C30: the fundamentals enumerator includes a symbol of the universe if and
\* only if it is not in .tried-empty and some statement type lacks a quarter
\* of [floor, current quarter] in the symbol's partition; the worker queries,
\* per statement type, exactly the lacking quarters.
C30_FundamentalsGaps ==
  [][/\ FundEnumerated =>
          LET items == IF pc' = "pool" THEN work' ELSE << >>
          IN  /\ \A j, k \in 1..Len(items) : items[j].sym = items[k].sym => j = k
              /\ {items[k].sym : k \in 1..Len(items)} =
                    {s \in Universe(indexFiles) :
                        /\ s \notin triedEmpty
                        /\ \E t \in FundTypes : LackingQuarters(t, s) # {}}
     /\ \A k \in 1..Len(rt) :
          FundTypeHandled(k) =>
            rt'[k].asked = LackingQuarters(rt[k].ft + 1, work[k].sym)]_vars

\* A worker has handled the first statement type of symbol 1, whose
\* partition holds quarter 1: it queried quarter 2 and nothing else.
C30_Witness ==
  /\ pc = "pool" /\ phase = "fund"
  /\ \E k \in 1..Len(rt) :
        /\ work[k].sym = 1 /\ rt[k].ft = 1 /\ rt[k].asked = {2}
        /\ PresentQuarters(1, 1) = {1}

\* _run_daily_update has refreshed today's files and decides on the batch
\* for the new symbols; no query has failed so far.
NewBatchDecided ==
  pc = "du_new" /\ pc' # "du_new" /\ ~shutdown /\ faults = 0

\* The symbols of today's files that are in no file of an earlier date.
AddedToday ==
  UNION {indexFiles[i][loc.today_str] : i \in Indexes}
    \ UNION {indexFiles[i][d] : i \in Indexes, d \in 1..(loc.today_str - 1)}

\* C31: in a daily update every symbol of today's refreshed constituents
\* that is in no snapshot of an earlier date gets a bar item [start date,
\* today] in the batch for new symbols, which runs before the batch for the
\* current members.
C31_NewSymbolsBackfilledFirst ==
  [][(NewBatchDecided /\ AddedToday # {}) =>
        /\ pc' = "pool" /\ phase' = "du_new"
        /\ \A s \in AddedToday : \E k \in 1..Len(work') :
              work'[k] = Item(s, 0, StartDate, loc.today_str)]_vars

\* What _should_run_daily_update returns in a process whose cache
\* _daily_update_done_today is None: the answer of .last-completed and the
\* clock.
should_run_with_cache_cleared ==
  IF lastCompleted # 0 /\ lastCompleted >= today THEN FALSE ELSE afterCutoff

\* C32: whenever run is at the top of its loop, _should_run_daily_update
\* returns what it would return with the cache cleared.
C32_CacheIsOptimizationOnly ==
  pc = "loop" => (_should_run_daily_update = should_run_with_cache_cleared)

\* C33: the latest-date lookup of a symbol, which returns the maximum date
\* of the first non-empty readable year file in descending order of file
\* name, returns the maximum date over all readable year files of the
\* symbol, and nothing (0) when there is no non-empty readable file.
C33_LatestIsMaxOverAll ==
  \A s \in Syms :
    /\ _read_latest_bar_date(s) =
          IF StoredDates(daily, s) = {} THEN 0 ELSE MaxOf(StoredDates(daily, s))
    /\ _read_latest_30min_date(s) =
          IF StoredDates(min30, s) = {} THEN 0 ELSE MaxOf(StoredDates(min30, s))

\* A symbol has bars in two readable year files and the lookup returns the
\* date in the later one; its only 30-minute file cannot be read, and that
\* lookup returns nothing.
C33_Witness ==
  \E s \in Syms :
    /\ daily[s][1].st = "ok" /\ daily[s][1].rows # << >>
    /\ daily[s][2].st = "ok" /\ daily[s][2].rows # << >>
    /\ _read_latest_bar_date(s) = MaxDay
    /\ min30[s][2].st \notin {"ok", "absent"}
    /\ _read_latest_30min_date(s) = 0

\* C34: the idle wait sleeps at most 60 one-second units, at most one unit
\* ends after the shutdown flag was set, no unit is slept when the flag was
\* set on entry, and the wait does return.
C34_IdleWait ==
  /\ [](sunits <= SleepSeconds /\ safter <= 1 /\ (sentry => sunits = 0))
  /\ <>(spc = "returned")

\* The flag was set during a unit of the wait, and the wait has returned
\* after that unit, before its 60 units were over.
C34_Witness ==
  /\ spc = "returned" /\ shutdown /\ ~sentry
  /\ safter = 1 /\ sunits > 1 /\ sunits < SleepSeconds

\* C35: when a pool shuts down, after its last result or by cancellation,
\* the sessions its workers opened at the source are logged out: the step
\* that leaves the pool leaves no worker session open.
C35_WorkerSessionsLoggedOut ==
  [][(pc = "pool" /\ pc' # "pool" /\ restarts' = restarts) => ~session']_vars

\* C36: .scan-progress changes only in a step of the index-history phase,
\* .last-completed only in a step of the daily update, .tried-empty only in
\* a step of the fundamentals backfill; a step of the daily-bar or 30-minute
\* backfill changes none of the three.
C36_MarkersHaveOneWriter ==
  [][ /\ scanProgress' # scanProgress =>
           \/ pc = "loop" /\ ~_index_history_complete
           \/ pc = "post" /\ phase = "index"
      /\ lastCompleted' # lastCompleted =>
           \/ pc = "du_mark"
           \/ pc = "post" /\ phase = "du_cur"
      /\ triedEmpty' # triedEmpty => (pc = "post" /\ phase = "fund")
      /\ (\/ pc \in {"pool", "post"} /\ phase \in {"bars", "30min"}
          \/ pc = "ret_bars"
          \/ pc = "loop" /\ (pc' = "ret_bars" \/ (pc' = "pool" /\ phase' = "bars")))
         => UNCHANGED <<scanProgress, lastCompleted, triedEmpty>> ]_vars

\* All three markers have been written, and the 30-minute backfill has
\* just ended a pool that stored rows.
C36_Witness ==
  /\ scanProgress # 0 /\ lastCompleted # 0 /\ triedEmpty # {}
  /\ pc = "post" /\ phase = "30min" /\ loc.total > 0

\* C37: every symbol listed in .tried-empty has no row in any of its
\* fundamentals partitions.
C37_MemoHoldsOnlyDatalessSymbols ==
  \A s \in triedEmpty : \A t \in FundTypes : PresentQuarters(t, s) = {}

\* C38: in every step the dates in .scan-progress and .last-completed do not
\* decrease and are not later than the current date, and .tried-empty
\* loses no symbol.
C38_ProgressNeverRegresses ==
  [][ /\ scanProgress' >= scanProgress /\ scanProgress' <= today'
      /\ lastCompleted' >= lastCompleted /\ lastCompleted' <= today'
      /\ triedEmpty \subseteq triedEmpty' ]_vars

\* After a restart, on a later day than the first marker was written, both
\* date markers have advanced and the memo has grown to two symbols.
C38_Witness ==
  /\ restarts > 0 /\ today > 1
  /\ scanProgress > 1 /\ lastCompleted > 1
  /\ Cardinality(triedEmpty) >= 2

\* _fundamentals_backfill, called now, would find no symbol to work on.
FundQuiescent ==
  FundWork(_all_index_symbols(indexFiles), fund, _load_fundamentals_tried_empty,
           today) = << >>

\* C39: from some point on every fundamentals pass enumerates no work.
C39_FundamentalsQuiesce == <>[](pc = "ret_30" => FundQuiescent)

\* A fundamentals pass is about to begin and has nothing to enumerate: the universe is not empty, a statement is stored, and the
\* other symbols are in the memo.
C39_Witness ==
  /\ pc = "ret_30" /\ FundQuiescent /\ ~shutdown
  /\ \E s \in Universe(indexFiles) : \E t \in FundTypes : PresentQuarters(t, s) # {}
  /\ \E s \in Universe(indexFiles) : s \in triedEmpty /\ \A t \in FundTypes : PresentQuarters(t, s) = {}

\* C40: every row of a daily or 30-minute partition file <symbol>/<year>
\* has its date in that year, also while the file is being written.
C40_RowsInTheirOwnYear ==
  \A s \in Syms : \A y \in Years :
    /\ \A j \in 1..Len(daily[s][y].rows) : YearOf(daily[s][y].rows[j].date) = y
    /\ \A j \in 1..Len(min30[s][y].rows) : YearOf(min30[s][y].rows[j].date) = y

\* One answer of the source with days of two years has been written: the
\* symbol has a daily file for each year, and a 30-minute file as well.
C40_Witness ==
  \E s \in Syms :
    /\ \A y \in Years : daily[s][y].st = "ok" /\ daily[s][y].rows # << >>
    /\ \E y \in Years : min30[s][y].st = "ok" /\ min30[s][y].rows # << >>

====
